---- MODULE Spec2Model ----
(***************************************************************************)
(* ESP32 BLE Debugger Lite: the pin registry, the value resolver, the      *)
(* packet assembler (sendPkt), the control parser (CtrlCB::onWrite) and    *)
(* the sampling driver of src/src/esp32_ble_debugger_Lite.cpp.             *)
(*                                                                         *)
(* Representation notes.                                                   *)
(*  - A C++ String is a TLA+ string; length() is Len.                      *)
(*  - A byte buffer (the bytes of a control write) is a sequence of        *)
(*    one-character strings.                                               *)
(*  - A uint32_t is held as its 32-bit pattern read as a two's complement  *)
(*    integer (the model checker's integers are 32 bits wide): values      *)
(*    below 2^31 are themselves, 2^32 - k is -k.  ULt is the unsigned      *)
(*    comparison on such patterns.                                         *)
(*  - A float is held as a whole number of ten-thousandths, or NAN.        *)
(***************************************************************************)
EXTENDS Integers, Sequences, FiniteSets, TLC

VARIABLES
    pins,       \* std::vector<DebugPin> pins
    dbg_int,    \* static uint32_t dbg_int
    nt,         \* BLECharacteristic *nt (notify), NULL or a handle
    wr,         \* BLECharacteristic *wr (write), NULL or a handle
    wrValue,    \* bytes last written to the write characteristic
    now,        \* millis()
    last,       \* static uint32_t last of esp32_ble_debugger_loop
    pc,         \* position of the sampling context
    seq,        \* sendPkt: uint16_t seq
    idx,        \* sendPkt: size_t idx
    doc,        \* sendPkt: the StaticJsonDocument being filled
    sent,       \* frames pushed by nt->notify() in the current pass
    wake,       \* bleDbgTask: when vTaskDelay began and the interval it was given
    async       \* ESP_LIVE_DBG_ASYNC, fixed when the firmware is built

vars == <<pins, dbg_int, nt, wr, wrValue, now, last, pc, seq, idx, doc, sent, wake, async>>

regVars == <<pins>>
bleVars == <<dbg_int, nt, wr, wrValue>>
passVars == <<last, pc, seq, idx, doc, sent, wake, async>>

----------------------------------------------------------------------------
(* Constants of the program *)

NULL == "null"
\* A defaulted (omitted) C++ argument of esp32_ble_debugger_register_pin.
Absent == "absent"

BLE_CHUNK_LIMIT == 240
ESP_LIVE_DBG_RATE_MIN == 50
ESP_LIVE_DBG_RATE_MAX == 60000
ESP_LIVE_DBG_TEMP == 1
DefaultRate == 500
VirtualFloor == 100
INT_MAX == 2147483647
\* Not-a-number: a pattern that no float sample takes.
NAN == 0 - INT_MAX
SAFE_PINS == <<2, 12, 13, 14, 15, 36, 39, 34, 35, 32, 33>>

\* (uint8_t)n
ToU8(n) == n % 256

\* Unsigned comparison of two uint32_t patterns.
ULt(a, b) == IF (a < 0) = (b < 0) THEN a < b ELSE b < 0
ULe(a, b) == ~ULt(b, a)

RECURSIVE Digits(_)
\* Number of decimal digits of a natural number.
Digits(n) == IF n < 10 THEN 1 ELSE 1 + Digits(n \div 10)

\* Number of decimal digits of a uint32_t pattern (2^31 and above has ten).
U32Digits(x) == IF x < 0 THEN 10 ELSE Digits(x)

----------------------------------------------------------------------------
(* Pin registry *)

DebugPin(n, cfg, dir, getter, ptr, hasPtr) ==
    [num |-> n, cfg |-> cfg, dir |-> dir, getter |-> getter,
     cur |-> 0, hasCur |-> FALSE, ptr |-> ptr, hasPtr |-> hasPtr]

RECURSIVE FindFrom(_, _, _)
\* The scan of findPin from index i on: first index whose num is n, else 0.
FindFrom(ps, n, i) ==
    IF i > Len(ps) THEN 0
    ELSE IF ps[i].num = n THEN i
    ELSE FindFrom(ps, n, i + 1)

\* findPin with a scan that starts one entry late.
findPinFromSecond(ps, n) == FindFrom(ps, n, 2)

\* Index of the first pin numbered n, 0 when there is none (nullptr).
findPin(ps, n) == FindFrom(ps, n, 1)

\* The value a defaulted String argument takes (String cfg = "-", dir = "-").
DefaultArg(a) == IF a = Absent THEN "-" ELSE a

\* esp32_ble_debugger_register_pin(n, cfg, dir, getter) on registry ps.
register_pin(ps, n, cfgArg, dirArg, getter) ==
    LET cfg == DefaultArg(cfgArg)
        dir == DefaultArg(dirArg)
        i == findPin(ps, n)
    IN  IF i # 0
        THEN [ps EXCEPT ![i] =
                [@ EXCEPT !.cfg = IF Len(cfg) > 0 THEN cfg ELSE @,
                          !.dir = IF Len(dir) > 0 THEN dir ELSE @,
                          !.getter = getter]]
        ELSE Append(ps, DebugPin(n, cfg, dir, getter, NULL, FALSE))

\* esp32_ble_debugger_probe_impl(n, pvar, varName) on registry ps; n is uint16_t.
probe_impl(ps, n, pvar, varName) ==
    LET m == IF n < VirtualFloor THEN VirtualFloor ELSE n
        i == findPin(ps, ToU8(m))
    IN  IF i = 0
        THEN Append(ps, DebugPin(ToU8(m), "VIRTUAL", varName, NULL, pvar, TRUE))
        ELSE [ps EXCEPT ![i] =
                [@ EXCEPT !.cfg = "VIRTUAL", !.dir = varName,
                          !.ptr = pvar, !.hasPtr = TRUE]]

RECURSIVE SeedFromNoLookup(_, _)
\* The seeding loop without the findPin test.
SeedFromNoLookup(ps, k) ==
    IF k > Len(SAFE_PINS) THEN ps
    ELSE SeedFromNoLookup(Append(ps, DebugPin(SAFE_PINS[k], "-", "-", NULL, NULL, FALSE)),
                          k + 1)

RECURSIVE SeedFrom(_, _)
\* The loop of registerSafePins from position k of SAFE_PINS.
SeedFrom(ps, k) ==
    IF k > Len(SAFE_PINS) THEN ps
    ELSE SeedFrom(IF findPin(ps, SAFE_PINS[k]) = 0
                  THEN Append(ps, DebugPin(SAFE_PINS[k], "-", "-", NULL, NULL, FALSE))
                  ELSE ps,
                  k + 1)

registerSafePins(ps) == SeedFrom(ps, 1)

RegisterPin(n, cfgArg, dirArg, getter) ==
    /\ pins' = register_pin(pins, n, cfgArg, dirArg, getter)
    /\ UNCHANGED <<bleVars, now, passVars>>

ProbeImpl(n, pvar, varName) ==
    /\ pins' = probe_impl(pins, n, pvar, varName)
    /\ UNCHANGED <<bleVars, now, passVars>>

RegisterSafePins ==
    /\ pins' = registerSafePins(pins)
    /\ UNCHANGED <<bleVars, now, passVars>>

----------------------------------------------------------------------------
(* Control parser *)

DigitChars == {"0", "1", "2", "3", "4", "5", "6", "7", "8", "9"}
\* isspace; the vertical tab has no TLA+ string escape and is left out.
SpaceChars == {" ", "\t", "\n", "\r", "\f"}

DigitVal(ch) ==
    CASE ch = "0" -> 0 [] ch = "1" -> 1 [] ch = "2" -> 2 [] ch = "3" -> 3
      [] ch = "4" -> 4 [] ch = "5" -> 5 [] ch = "6" -> 6 [] ch = "7" -> 7
      [] ch = "8" -> 8 [] ch = "9" -> 9

\* s[i], or the terminating NUL of c_str() past the end.
Ch(s, i) == IF i >= 1 /\ i <= Len(s) THEN s[i] ELSE "NUL"

RECURSIVE SkipWs(_, _)
SkipWs(s, i) ==
    IF i <= Len(s) /\ s[i] \in SpaceChars THEN SkipWs(s, i + 1) ELSE i

RECURSIVE ScanDigits(_, _, _)
\* Accumulates the run of digits at s[i..]: <<value, index after the run>>.  The
\* accumulation stops growing at INT_MAX, as strtol (which newlib's atoi calls).
ScanDigits(s, i, acc) ==
    IF i <= Len(s) /\ s[i] \in DigitChars
    THEN LET d == DigitVal(s[i])
         IN  ScanDigits(s, i + 1,
                        IF acc > (INT_MAX - d) \div 10 THEN INT_MAX ELSE acc * 10 + d)
    ELSE <<acc, i>>

\* atoi(s): leading whitespace, an optional sign, then the leading digits.
atoi(s) ==
    LET i == SkipWs(s, 1)
        j == IF Ch(s, i) \in {"+", "-"} THEN i + 1 ELSE i
        v == ScanDigits(s, j, 0)[1]
    IN  IF Ch(s, i) = "-" THEN 0 - v ELSE v

\* The scan of CtrlCB::onWrite: every byte is a digit or whitespace.
allDigitsOrWs(s) == \A i \in 1..Len(s) : s[i] \in DigitChars \cup SpaceChars

\* The slip of storing the requested interval as it comes.
set_rate_unclamped(ms) == ms

\* set_rate_clamped(ms): the value it stores in dbg_int.
set_rate_clamped(ms) ==
    LET m1 == IF ULt(ms, ESP_LIVE_DBG_RATE_MIN) THEN ESP_LIVE_DBG_RATE_MIN ELSE ms
    IN  IF ULt(ESP_LIVE_DBG_RATE_MAX, m1) THEN ESP_LIVE_DBG_RATE_MAX ELSE m1

JsonFail == [err |-> TRUE, members |-> <<>>]

RECURSIVE ScanString(_, _, _)
\* The characters of a JSON string whose opening quote precedes s[i]:
\* <<characters, index after the closing quote>>, index 0 when unterminated.
ScanString(s, i, acc) ==
    IF i > Len(s) THEN <<acc, 0>>
    ELSE IF s[i] = "\"" THEN <<acc, i + 1>>
    ELSE ScanString(s, i + 1, Append(acc, s[i]))

\* An integer value at s[i]: [ok, val, next].
ParseInt(s, i) ==
    LET j == IF Ch(s, i) = "-" THEN i + 1 ELSE i
        r == ScanDigits(s, j, 0)
    IN  [ok |-> r[2] > j /\ Ch(s, r[2]) \notin {"a", "b", "c", "x", ".", "-", "+"},
         val |-> IF Ch(s, i) = "-" THEN 0 - r[1] ELSE r[1],
         next |-> r[2]]

RECURSIVE ParseMembers(_, _, _)
\* The members of a JSON object from s[i] (the first key's quote) on.
ParseMembers(s, i, acc) ==
    IF Ch(s, i) # "\"" THEN JsonFail
    ELSE
      LET k == ScanString(s, i + 1, <<>>)
          c == SkipWs(s, k[2])
          v == ParseInt(s, SkipWs(s, c + 1))
          e == SkipWs(s, v.next)
          all == Append(acc, [key |-> k[1], val |-> v.val])
      IN  IF k[2] = 0 \/ Ch(s, c) # ":" \/ ~v.ok THEN JsonFail
          ELSE IF Ch(s, e) = "}" THEN [err |-> FALSE, members |-> all]
          ELSE IF Ch(s, e) = "," THEN ParseMembers(s, SkipWs(s, e + 1), all)
          ELSE JsonFail

\* deserializeJson(doc, s, n) for the inputs a rate command can be: an object
\* of integer members, or a bare integer; [err, members].  Input after the
\* first complete value is not read.
deserializeJson(s) ==
    LET i == SkipWs(s, 1)
    IN  IF Ch(s, i) = "{"
        THEN IF Ch(s, SkipWs(s, i + 1)) = "}"
             THEN [err |-> FALSE, members |-> <<>>]
             ELSE ParseMembers(s, SkipWs(s, i + 1), <<>>)
        ELSE IF ParseInt(s, i).ok THEN [err |-> FALSE, members |-> <<>>]
        ELSE JsonFail

\* doc.containsKey(key)
containsKey(d, key) == \E i \in 1..Len(d.members) : d.members[i].key = key

\* doc[key].as<int>(): the first member named key.
AsInt(d, key) ==
    d.members[CHOOSE i \in 1..Len(d.members) :
                 /\ d.members[i].key = key
                 /\ \A j \in 1..(i - 1) : d.members[j].key # key].val

KeyRate == <<"r", "a", "t", "e">>
KeyDbgInt == <<"d", "b", "g", "_", "i", "n", "t">>

\* CtrlCB::onWrite on the bytes s: the value of dbg_int when it returns.
onWrite(rate, s) ==
    IF Len(s) = 0 THEN rate
    ELSE IF allDigitsOrWs(s)
    THEN LET ms == atoi(s)
         IN  IF ms # 0 THEN set_rate_clamped(ms) ELSE rate
    ELSE LET d == deserializeJson(s)
             r1 == IF containsKey(d, KeyRate)
                   THEN set_rate_clamped(AsInt(d, KeyRate)) ELSE rate
         IN  IF d.err THEN rate
             ELSE IF containsKey(d, KeyDbgInt)
             THEN set_rate_clamped(AsInt(d, KeyDbgInt)) ELSE r1

\* A write to the control characteristic: the stack stores the bytes in the
\* characteristic and runs CtrlCB::onWrite in its own context.
OnWrite(bytes) ==
    /\ wr # NULL
    /\ wrValue' = bytes
    /\ dbg_int' = onWrite(dbg_int, bytes)
    /\ UNCHANGED <<pins, nt, wr, now, passVars>>

\* esp32_ble_debugger_begin(ms), called once by the application.
Begin(ms) ==
    /\ nt = NULL
    /\ pc = "idle"
    /\ dbg_int' = ms
    /\ nt' = "notify"
    /\ wr' = "write"
    /\ pc' = IF async THEN "call" ELSE "idle"
    /\ UNCHANGED <<pins, wrValue, now, last, seq, idx, doc, sent, wake, async>>

----------------------------------------------------------------------------
(* Value resolver and serialisation *)

\* isDacPin(n) on the default target (DBG_TARGET_S3 == 0).
isDacPin(n) == n \in {25, 26}

\* (int)f for a float held in ten-thousandths: truncation toward zero.
TruncToInt(f) == IF f >= 0 THEN f \div 10000 ELSE 0 - ((0 - f) \div 10000)

\* snprintf("%.3f") then atof: f rounded to thousandths, in ten-thousandths.
Round3(f) ==
    IF f >= 0 THEN ((f + 5) \div 10) * 10 ELSE 0 - (((0 - f) + 5) \div 10) * 10

RECURSIVE FracDigits(_, _, _, _)
\* k more decimal digits of r/d (r < d): <<digits as a number, remainder>>.
FracDigits(r, d, k, acc) ==
    IF k = 0 THEN <<acc, r>>
    ELSE FracDigits((r * 10) % d, d, k - 1, acc * 10 + ((r * 10) \div d))

RECURSIVE StripZeros(_, _)
\* Decimal places left of the k-place fraction f once trailing zeros are dropped.
StripZeros(f, k) ==
    IF k > 0 /\ f % 10 = 0 THEN StripZeros(f \div 10, k - 1) ELSE k

\* Characters of the JSON text of the double n/d (n >= 0, d > 0): the integral
\* part, then up to nine decimals, rounded, without trailing zeros.
JsonFloatLen(n, d) ==
    LET fr == FracDigits(n % d, d, 9, 0)
        f1 == IF 2 * fr[2] >= d THEN fr[1] + 1 ELSE fr[1]
        ip == IF f1 = 1000000000 THEN (n \div d) + 1 ELSE n \div d
        f2 == IF f1 = 1000000000 THEN 0 ELSE f1
    IN  Digits(ip) + (IF f2 = 0 THEN 0 ELSE 1 + StripZeros(f2, 9))

JsonNumLen(n, d) == IF n < 0 THEN 1 + JsonFloatLen(0 - n, d) ELSE JsonFloatLen(n, d)

\* Characters of the JSON text of an int.
JsonIntLen(n) == IF n < 0 THEN 1 + Digits(0 - n) ELSE Digits(n)

\* The slip of telling a virtual pin by its id range.
isVirtualById(p) == p.num >= VirtualFloor

\* is_virtual_pin of jsonAddPin.
is_virtual_pin(p) == p.cfg = "VIRTUAL"

\* The slip of leaving out the clamp at 4095.
encodeAnalogNoCeiling(injected, dacPin) ==
    LET a0 == TruncToInt(injected)
        a1 == IF dacPin /\ a0 >= 0 /\ a0 <= 255 THEN a0 * 16 ELSE a0
    IN  IF a1 < 0 THEN 0 ELSE a1

\* The analog value jsonAddPin makes of an injected float that is not NaN.
encodeAnalog(injected, dacPin) ==
    LET a0 == TruncToInt(injected)
        a1 == IF dacPin /\ a0 >= 0 /\ a0 <= 255 THEN a0 * 16 ELSE a0
        a2 == IF a1 < 0 THEN 0 ELSE a1
    IN  IF a2 > 4095 THEN 4095 ELSE a2

\* jsonAddPin(o, p): the object it builds for pin p, with the number of
\* characters of its JSON text.  e holds what the outside gives when asked:
\* e.get the getter's result, e.deref the float behind ptr, e.dig digitalRead,
\* e.ana analogRead.  raw is the injected value, hw the hardware read made.
jsonAddPin(p, e) ==
    LET virtual == is_virtual_pin(p)
        src == IF virtual THEN "virtual"
               ELSE IF isDacPin(p.num) THEN "dac" ELSE "hw"
        injected == IF p.getter # NULL THEN e.get
                    ELSE IF p.hasPtr /\ p.ptr # NULL THEN e.deref
                    ELSE IF p.hasCur THEN p.cur
                    ELSE NAN
        analog == p.cfg = "ANALOG"
        dout == p.dir = "OUT"
        dacPin == analog /\ dout /\ isDacPin(p.num)
        v == Round3(IF injected = NAN THEN 0 ELSE injected)
        d == IF injected # NAN THEN (IF injected # 0 THEN 1 ELSE 0) ELSE e.dig
        a == IF injected # NAN THEN encodeAnalog(injected, dacPin) ELSE e.ana
        common == Len("{\"num\":") + Digits(p.num)
                  + Len(",\"config\":\"\"") + Len(p.cfg)
                  + Len(",\"direction\":\"\"") + Len(p.dir)
                  + Len(",\"src\":\"\"") + Len(src) + Len("}")
        base == [num |-> p.num, config |-> p.cfg, direction |-> p.dir, src |-> src,
                 raw |-> injected]
    IN  IF virtual
        THEN base @@ [kind |-> "virtual", value |-> v, hw |-> "none",
                      len |-> common + Len(",\"value\":") + JsonNumLen(v, 10000)
                                     + Len(",\"voltage\":\"-\"")]
        ELSE IF ~analog
        THEN base @@ [kind |-> "digital", value |-> d, digital |-> d,
                      hw |-> IF injected # NAN THEN "none" ELSE "digitalRead",
                      len |-> common + Len(",\"value\":") + 1 + Len(",\"digital\":") + 1
                                     + Len(",\"voltage\":") + (IF d = 1 THEN 3 ELSE 1)]
        ELSE base @@ [kind |-> "analog", value |-> a, analog |-> a,
                      hw |-> IF injected # NAN THEN "none" ELSE "analogRead",
                      len |-> common + Len(",\"value\":") + JsonIntLen(a)
                                     + Len(",\"analog\":") + JsonIntLen(a)
                                     + Len(",\"voltage\":") + JsonNumLen(33 * a, 40950)]

\* Characters of the header part of a frame: jsonAddHeader, seq, last and the
\* brackets of the pin list.  temp is the reading of temprature_sens_read().
HeaderLen(d) ==
    Len("{\"ver\":\"1.6\"")
    + Len(",\"timestamp\":") + U32Digits(d.ts)
    + Len(",\"rate\":") + U32Digits(d.rate)
    + (IF ESP_LIVE_DBG_TEMP = 1
       THEN Len(",\"temp\":") + JsonNumLen(5 * (d.temp - 32), 9) ELSE 0)
    + Len(",\"seq\":") + Digits(d.seq)
    + Len(",\"last\":") + (IF d.last THEN Len("true") ELSE Len("false"))
    + Len(",\"pins\":[]}")

RECURSIVE SumLen(_, _)
SumLen(es, i) == IF i > Len(es) THEN 0 ELSE es[i].len + SumLen(es, i + 1)

\* measureJson(doc)
measureJson(d) ==
    HeaderLen(d) + SumLen(d.pins, 1) + (IF Len(d.pins) > 1 THEN Len(d.pins) - 1 ELSE 0)

----------------------------------------------------------------------------
(* Packet assembler *)

\* The slip of a loop that runs its body once before testing.
outerLoopTestAfter(ps, i, sq) == i < Len(ps) \/ sq = 0

\* The test of the outer loop of sendPkt: while (idx < pins.size()).
outerLoopTest(ps, i, sq) == i < Len(ps)

\* The slip of comparing with > where >= is meant.
overLimit(n) == n > BLE_CHUNK_LIMIT

\* measureJson(doc) >= BLE_CHUNK_LIMIT
reachesLimit(n) == n >= BLE_CHUNK_LIMIT

\* The slip of removing the entry without rewinding the cursor.
addPinNoRewind(ps, d, i, e) ==
    LET d2 == [d EXCEPT !.pins = Append(@, jsonAddPin(ps[i + 1], e))]
    IN  IF reachesLimit(measureJson(d2))
        THEN [doc |-> d, idx |-> i + 1, brk |-> TRUE]
        ELSE [doc |-> d2, idx |-> i + 1, brk |-> FALSE]

\* One turn of the inner loop of sendPkt: pins[idx++] is added to the frame and
\* taken out again, the cursor rewound, when the frame reaches the limit.
addPin(ps, d, i, e) ==
    LET d2 == [d EXCEPT !.pins = Append(@, jsonAddPin(ps[i + 1], e))]
    IN  IF reachesLimit(measureJson(d2))
        THEN [doc |-> d, idx |-> i, brk |-> TRUE]
        ELSE [doc |-> d2, idx |-> i + 1, brk |-> FALSE]

\* What the observer receives of a document.
FrameOf(d) ==
    [seq |-> d.seq, last |-> d.last,
     pins |-> [k \in 1..Len(d.pins) |->
                 [num |-> d.pins[k].num, config |-> d.pins[k].config,
                  direction |-> d.pins[k].direction]]]

GetSamples == {100000}
DerefSamples == {0, 12346}
DigSamples == {0, 1}
AnaSamples == {160}
Envs == [get : GetSamples, deref : DerefSamples, dig : DigSamples, ana : AnaSamples]
TempReads == {32, 128}

MaxFrames == 16
TickMs == 250
MaxTime == 250

\* sendPkt is entered: seq = 0, idx = 0.
EnterSendPkt ==
    /\ seq' = 0
    /\ idx' = 0
    /\ doc' = <<>>
    /\ sent' = <<>>
    /\ pc' = "outer"

\* The slip of measuring the elapsed time from boot, not from the baseline.
loopDueSinceBoot(rate, t, base) == ULe(rate, t)

\* The test of esp32_ble_debugger_loop: millis() - last >= dbg_int, in uint32_t.
loopDue(rate, t, base) == ULe(rate, t - base)

\* esp32_ble_debugger_loop() with ESP_LIVE_DBG_ASYNC == 0.
Loop ==
    /\ ~async
    /\ pc = "idle"
    /\ IF loopDue(dbg_int, now, last)
       THEN last' = now /\ EnterSendPkt
       ELSE UNCHANGED <<last, pc, seq, idx, doc, sent>>
    /\ UNCHANGED <<pins, bleVars, now, wake, async>>

\* bleDbgTask calls sendPkt.
TaskCall ==
    /\ pc = "call"
    /\ EnterSendPkt
    /\ UNCHANGED <<pins, bleVars, now, last, wake, async>>

\* The outer loop is entered: a new document with header, seq and last = false.
OpenFrame ==
    /\ pc = "outer"
    /\ outerLoopTest(pins, idx, seq)
    /\ \E t \in TempReads :
          doc' = [ts |-> now, rate |-> dbg_int, temp |-> t, seq |-> seq,
                  last |-> FALSE, pins |-> <<>>]
    /\ pc' = IF idx < Len(pins) THEN "inner" ELSE "emit"
    /\ UNCHANGED <<pins, bleVars, now, last, seq, idx, sent, wake, async>>

\* One turn of the inner loop, the outside answering from envs.
AddPinWith(envs) ==
    /\ pc = "inner"
    /\ \E e \in envs :
          LET r == addPin(pins, doc, idx, e)
          IN  /\ doc' = r.doc
              /\ idx' = r.idx
              /\ pc' = IF r.brk \/ ~(r.idx < Len(pins)) THEN "emit" ELSE "inner"
    /\ UNCHANGED <<pins, bleVars, now, last, seq, sent, wake, async>>

AddPin == AddPinWith(Envs)

\* last is set, the document serialised and pushed through nt; seq++.
EmitFrame ==
    /\ pc = "emit"
    /\ Len(sent) < MaxFrames
    /\ IF nt = NULL
       THEN /\ pc' = "fault"
            /\ UNCHANGED <<doc, sent, seq>>
       ELSE /\ doc' = [doc EXCEPT !.last = (idx >= Len(pins))]
            /\ sent' = Append(sent, FrameOf(doc'))
            /\ seq' = (seq + 1) % 65536
            /\ pc' = "outer"
    /\ UNCHANGED <<pins, bleVars, now, last, idx, wake, async>>

\* The slip of keeping the interval of the first suspension for all later ones.
delayArgStale(rate, w) == IF w = <<>> THEN rate ELSE w.ms

\* The argument of vTaskDelay in bleDbgTask: dbg_int as it is when sendPkt has
\* returned (w is the previous suspension).
delayArg(rate, w) == rate

\* sendPkt returns (its document goes out of scope and the pass is over);
\* bleDbgTask then suspends for the interval it reads now.
Return ==
    /\ pc = "outer"
    /\ ~outerLoopTest(pins, idx, seq)
    /\ pc' = IF async THEN "delay" ELSE "idle"
    /\ wake' = IF async THEN [from |-> now, ms |-> delayArg(dbg_int, wake)] ELSE wake
    /\ doc' = <<>>
    /\ sent' = <<>>
    /\ UNCHANGED <<pins, bleVars, now, last, seq, idx, async>>

\* vTaskDelay is over.
Wake ==
    /\ pc = "delay"
    /\ ULe(wake.ms, now - wake.from)
    /\ pc' = "call"
    /\ UNCHANGED <<pins, bleVars, now, last, seq, idx, doc, sent, wake, async>>

\* millis() moves on by ms, no further than until.
Advance(ms, until) ==
    /\ now + ms <= until
    /\ now' = now + ms
    /\ UNCHANGED <<pins, bleVars, passVars>>

Tick == Advance(TickMs, MaxTime)

----------------------------------------------------------------------------
Init ==
    /\ pins = <<>>
    /\ dbg_int = DefaultRate
    /\ nt = NULL
    /\ wr = NULL
    /\ wrValue = <<>>
    /\ now = 0
    /\ last = 0
    /\ pc = "idle"
    /\ seq = 0
    /\ idx = 0
    /\ doc = <<>>
    /\ sent = <<>>
    /\ wake = <<>>
    /\ async = TRUE

\* The build with ESP_LIVE_DBG_ASYNC set to 0.
InitPolled ==
    /\ pins = <<>>
    /\ dbg_int = DefaultRate
    /\ nt = NULL
    /\ wr = NULL
    /\ wrValue = <<>>
    /\ now = 0
    /\ last = 0
    /\ pc = "idle"
    /\ seq = 0
    /\ idx = 0
    /\ doc = <<>>
    /\ sent = <<>>
    /\ wake = <<>>
    /\ async = FALSE

----------------------------------------------------------------------------
(* The registry under application calls in any order *)

RegIds == {2, 100}
RegCfgs == {Absent, "", "ANALOG"}
RegDirs == {Absent, "", "OUT"}
Getters == {NULL, "getter"}
\* 5 is below the virtual floor; 258 does not fit the uint8_t id of a pin.
ProbeIds == {5, 258}
Ptrs == {"var"}
Labels == {"x"}

NextRegistry ==
    \/ \E n \in RegIds, c \in RegCfgs, d \in RegDirs, g \in Getters :
          RegisterPin(n, c, d, g)
    \/ \E n \in ProbeIds, p \in Ptrs, l \in Labels : ProbeImpl(n, p, l)
    \/ RegisterSafePins

SpecRegistry == Init /\ [][NextRegistry]_vars

\* Which source jsonAddPin takes the injected value of pin p from.
OverrideSource(p) ==
    IF p.getter # NULL THEN "getter"
    ELSE IF p.hasPtr /\ p.ptr # NULL THEN "ptr"
    ELSE IF p.hasCur THEN "cur"
    ELSE "none"

Nums(ps) == [i \in 1..Len(ps) |-> ps[i].num]

UniqueIds(ps) == \A i, j \in 1..Len(ps) : ps[i].num = ps[j].num => i = j

\* A step of esp32_ble_debugger_register_pin(n, c, d, g) on an id already present.
RegisterExisting(n, c, d, g) ==
    /\ findPin(pins, n) # 0
    /\ pins' = register_pin(pins, n, c, d, g)

\* A step of esp32_ble_debugger_probe_impl(n, p, l) on an id already present.
ProbeExisting(n, p, l) ==
    /\ findPin(pins, ToU8(IF n < VirtualFloor THEN VirtualFloor ELSE n)) # 0
    /\ pins' = probe_impl(pins, n, p, l)

\* ps2 is ps1 with at most the entry at index i changed, its num kept.
UpdatedInPlace(ps1, ps2, i) ==
    /\ Len(ps2) = Len(ps1)
    /\ ps2[i].num = ps1[i].num
    /\ \A j \in 1..Len(ps1) : j # i => ps2[j] = ps1[j]

\* C5: after any sequence of register_pin, probe_impl and registerSafePins calls
\* no two pins of the registry have the same id, and a call that names an id
\* already present changes that pin in place and leaves the length unchanged.
C5_UniqueIds ==
    /\ [](UniqueIds(pins))
    /\ [][/\ \A n \in RegIds :
                LET i == findPin(pins, n)
                IN  i # 0 =>
                      \/ UpdatedInPlace(pins, pins', i)
                      \/ \A c \in RegCfgs, d \in RegDirs, g \in Getters :
                            pins' # register_pin(pins, n, c, d, g)
          /\ \A n \in ProbeIds :
                LET i == findPin(pins, ToU8(IF n < VirtualFloor THEN VirtualFloor ELSE n))
                IN  i # 0 =>
                      \/ UpdatedInPlace(pins, pins', i)
                      \/ \A p \in Ptrs, l \in Labels : pins' # probe_impl(pins, n, p, l)
          /\ \/ /\ Len(pins') >= Len(pins)
                /\ SubSeq(pins', 1, Len(pins)) = pins
                /\ \A k \in 1..Len(SAFE_PINS) : findPin(pins', SAFE_PINS[k]) # 0
             \/ pins' # registerSafePins(pins)
         ]_vars

\* C5 witness: id 100 was registered with a callback and probed (one of the two
\* calls found it present) and the safe pins were seeded around registered ones.
C5_Witness ==
    /\ Len(pins) > Len(SAFE_PINS)
    /\ \E i \in 1..Len(pins) :
          pins[i].num = 100 /\ pins[i].hasPtr /\ pins[i].getter # NULL

\* C6 (as claimed): a register_pin call on an existing id stores each non-empty
\* config / direction it supplies, and an empty or absent (defaulted) config /
\* direction leaves the stored one untouched.
C6_LastNonEmptyWins ==
    [][\A n \in RegIds, c \in RegCfgs, d \in RegDirs, g \in Getters :
          RegisterExisting(n, c, d, g) =>
             LET old == pins[findPin(pins, n)]
                 new == pins'[findPin(pins, n)]
             IN  /\ new.cfg = IF c \in {Absent, ""} THEN old.cfg ELSE c
                 /\ new.dir = IF d \in {Absent, ""} THEN old.dir ELSE d
      ]_vars

\* C7 (as claimed): after a register_pin call on an existing id that supplies no
\* override (getter = nullptr) the pin has no active override, neither callback
\* nor external float reference, so value resolution uses neither.
C7_OverrideCleared ==
    [][\A n \in RegIds, c \in RegCfgs, d \in RegDirs :
          RegisterExisting(n, c, d, NULL) =>
             OverrideSource(pins'[findPin(pins, n)]) \notin {"getter", "ptr"}
      ]_vars

\* C8 (as claimed): no pin ever holds a callback and an external float reference
\* at the same time.
C8_AtMostOneOverride ==
    \A i \in 1..Len(pins) :
        ~(pins[i].getter # NULL /\ pins[i].hasPtr /\ pins[i].ptr # NULL)


\* C12 (as claimed): a probe_impl call, whatever 16-bit id it is given, neither
\* creates nor modifies a pin whose id is below 100: every pin below 100 after
\* the call was there before it, unchanged.
C12_VirtualFloor ==
    [][\A n \in ProbeIds, p \in Ptrs, l \in Labels :
          pins' = probe_impl(pins, n, p, l) =>
             \A i \in 1..Len(pins') :
                pins'[i].num < VirtualFloor => (i <= Len(pins) /\ pins'[i] = pins[i])
      ]_vars

\* The indices of ps whose pin is numbered n.
Holders(ps, n) == {i \in 1..Len(ps) : ps[i].num = n}

\* The known-safe ids that registry ps lacks.
MissingSafe(ps) == {SAFE_PINS[k] : k \in 1..Len(SAFE_PINS)} \ {ps[i].num : i \in 1..Len(ps)}

\* C13: from every registry the calls can build, registerSafePins twice gives
\* the registry that registerSafePins once gives; every pin present before the
\* call keeps its position and all its fields; each known-safe id missing before
\* the call is there exactly once afterwards, and nothing else is added.
C13_SeedIdempotent ==
    LET once == registerSafePins(pins)
    IN  /\ registerSafePins(once) = once
        /\ Len(once) = Len(pins) + Cardinality(MissingSafe(pins))
        /\ SubSeq(once, 1, Len(pins)) = pins
        /\ \A n \in MissingSafe(pins) : Cardinality(Holders(once, n)) = 1

\* C13 witness: pins 2 and 100 were registered, 2 with a config of its own, and
\* the safe pins were then seeded after them: seeding again changes nothing.
C13_Witness ==
    /\ Len(pins) = Len(SAFE_PINS) + 1
    /\ pins[1].num = 2 /\ pins[1].cfg = "ANALOG"
    /\ pins[2].num = 100
    /\ pins[3].num = 12
    /\ registerSafePins(pins) = pins

----------------------------------------------------------------------------
(* The rate state under initialisation and control writes *)

\* Arguments of esp32_ble_debugger_begin; -1 is the pattern of 4294967295.
BeginArgs == {0, 10, 50, 500, 60000, 70000, -1}

WriteInputs ==
    { <<>>,
      <<"0">>,
      <<"3", "0", "0">>,
      <<"7">>,
      <<"4", "9">>,
      <<"5", "0">>,
      <<"6", "0", "0", "0", "1">>,
      <<" ", "8", "0", "\n">>,
      <<"1", "2", " ", "3", "4">>,
      <<" ", " ">>,
      <<"0", "0", "9", "0">>,
      <<"9", "9", "9", "9", "9", "9", "9", "9", "9", "9", "9">>,
      <<"a", "b", "c">>,
      <<"1", "2", "a">>,
      <<"{">>,
      <<"{", "\"", "r", "a", "t", "e", "\"", ":", "1", "0", "}">>,
      <<"{", "\"", "r", "a", "t", "e", "\"", ":", "0", "}">>,
      <<"{", "\"", "d", "b", "g", "_", "i", "n", "t", "\"", ":", "2", "0", "0", "}">>,
      <<"{", "\"", "r", "a", "t", "e", "\"", ":", "-", "5", "}">>,
      <<"{", "\"", "x", "\"", ":", "1", "}">>,
      <<"{", "\"", "r", "a", "t", "e", "\"", ":", "7", "0", "0", "0", "0", "}">>,
      <<"{", "\"", "r", "a", "t", "e", "\"", ":", "9", "0", ",",
        "\"", "d", "b", "g", "_", "i", "n", "t", "\"", ":", "4", "0", "0", "}">>,
      <<"1", "0", "0">> }

NextControl ==
    \/ \E ms \in BeginArgs : Begin(ms)
    \/ \E b \in WriteInputs : OnWrite(b)

SpecControl == Init /\ [][NextControl]_vars

InRange(r) == ULe(ESP_LIVE_DBG_RATE_MIN, r) /\ ULe(r, ESP_LIVE_DBG_RATE_MAX)

\* C9 (as claimed): the sampling interval lies within [ESP_LIVE_DBG_RATE_MIN,
\* ESP_LIVE_DBG_RATE_MAX] in every reachable state, whatever interval
\* esp32_ble_debugger_begin was given and whatever was written.
C9_RateInRange == InRange(dbg_int)

\* The control writes of WriteInputs that are neither all digits / whitespace
\* nor a structured object.
Malformed == { <<"a", "b", "c">>, <<"1", "2", "a">>, <<"{">> }

Clamp(v) ==
    IF v < ESP_LIVE_DBG_RATE_MIN THEN ESP_LIVE_DBG_RATE_MIN
    ELSE IF v > ESP_LIVE_DBG_RATE_MAX THEN ESP_LIVE_DBG_RATE_MAX
    ELSE v

RECURSIVE LeadingRun(_, _, _)
\* The number written by the digits b[i], b[i+1], ... up to the first non-digit,
\* counted no further than ESP_LIVE_DBG_RATE_MAX + 1 (every larger number clamps
\* to the same interval).
LeadingRun(b, i, v) ==
    IF i <= Len(b) /\ b[i] \in DigitChars
    THEN LET w == v * 10 + DigitVal(b[i])
         IN  LeadingRun(b, i + 1,
                        IF w > ESP_LIVE_DBG_RATE_MAX THEN ESP_LIVE_DBG_RATE_MAX + 1 ELSE w)
    ELSE v

\* The leading decimal value of a write made of digits and whitespace.
LeadingDecimal(b) ==
    LET first == CHOOSE i \in 1..(Len(b) + 1) :
                    /\ i = Len(b) + 1 \/ b[i] \notin SpaceChars
                    /\ \A j \in 1..(i - 1) : b[j] \in SpaceChars
    IN  LeadingRun(b, first, 0)

\* C10: a control write of digits and whitespace sets the interval to
\* clamp(v, min, max) when its leading decimal value v is nonzero and leaves it
\* unchanged when v is zero; an empty write and a write that is neither digits /
\* whitespace nor a structured object leave it unchanged.
C10_DecimalWrite ==
    [][\A b \in WriteInputs :
          (wr # NULL /\ wrValue' = b) =>
             IF b = <<>> \/ b \in Malformed THEN dbg_int' = dbg_int
             ELSE IF \A i \in 1..Len(b) : b[i] \in DigitChars \cup SpaceChars
             THEN dbg_int' = IF LeadingDecimal(b) # 0
                             THEN Clamp(LeadingDecimal(b)) ELSE dbg_int
             ELSE TRUE
      ]_vars

\* C10 witness: "300" was written and the interval is 300.
C10_Witness == wrValue = <<"3", "0", "0">> /\ dbg_int = 300

\* The structured writes of WriteInputs that carry one rate field, with the
\* integer the field holds.
StructuredWrites ==
    { [bytes |-> <<"{", "\"", "r", "a", "t", "e", "\"", ":", "1", "0", "}">>, v |-> 10],
      [bytes |-> <<"{", "\"", "r", "a", "t", "e", "\"", ":", "0", "}">>, v |-> 0],
      [bytes |-> <<"{", "\"", "d", "b", "g", "_", "i", "n", "t", "\"", ":", "2", "0", "0", "}">>,
       v |-> 200],
      [bytes |-> <<"{", "\"", "r", "a", "t", "e", "\"", ":", "-", "5", "}">>, v |-> 0 - 5],
      [bytes |-> <<"{", "\"", "r", "a", "t", "e", "\"", ":", "7", "0", "0", "0", "0", "}">>,
       v |-> 70000] }

\* The writes of WriteInputs that are not digits / whitespace and either fail
\* to parse or hold neither field.
NoRateField == Malformed \cup { <<"{", "\"", "x", "\"", ":", "1", "}">> }

\* C11 (as claimed): a structured write whose rate or dbg_int field holds v sets
\* the interval to clamp(v, min, max) when v is nonzero and leaves it unchanged
\* when v is zero; a write that fails to parse or holds neither field leaves it
\* unchanged.
C11_StructuredWrite ==
    [][/\ \A w \in StructuredWrites :
             (wr # NULL /\ wrValue' = w.bytes) =>
                dbg_int' = IF w.v # 0 THEN Clamp(w.v) ELSE dbg_int
       /\ \A b \in NoRateField :
             (wr # NULL /\ wrValue' = b) => dbg_int' = dbg_int
      ]_vars


----------------------------------------------------------------------------
(* The packet assembler in the polled build: the application registers pins,
   calls begin and loop from one thread; control writes and the clock are
   independent of it. *)

LongLabel == "vvvvvvvvvvvvvvvvvvvvvvvvvvvvvvvvvvvvvvvvvvvvvvvvvvvvvvvvvvvvvvvvvvvvvvvvvvvvvvvvvvvvvvvvvvvvvvvvvvvvvvvvvvvvvvvvvvvvvvvvvvvvvvvvvvvvvvvvvvvvvvvvvvvvvvvvvvvvvvvv"
AsmIds == {2, 7}
AsmLabels == {"x", LongLabel}
AsmBeginArgs == {0, 50}
AsmWrites == { <<"5", "0">> }

NextPolled ==
    \/ pc = "idle" /\ \E n \in AsmIds : RegisterPin(n, "", "", NULL)
    \/ pc = "idle" /\ \E l \in AsmLabels : ProbeImpl(100, "var", l)
    \/ pc = "idle" /\ RegisterSafePins
    \/ \E ms \in AsmBeginArgs : Begin(ms)
    \/ \E b \in AsmWrites : OnWrite(b)
    \/ Loop
    \/ OpenFrame
    \/ AddPin
    \/ EmitFrame
    \/ Return
    \/ Tick

SpecPolled == InitPolled /\ [][NextPolled]_vars

\* The longest header a frame can have: ten-digit timestamp and rate, a
\* sensor reading of 0, the largest uint16_t seq.
WorstHeaderLen ==
    HeaderLen([ts |-> 0 - 1, rate |-> 0 - 1, temp |-> 0, seq |-> 65535,
               last |-> FALSE, pins |-> <<>>])

\* The longest entry pin p can serialise to.
MaxEntryLen(p) ==
    CHOOSE m \in {jsonAddPin(p, e).len : e \in Envs} :
        \A e \in Envs : jsonAddPin(p, e).len <= m

\* Pin p's entry fits in a frame on its own.
FitsAlone(p) == WorstHeaderLen + MaxEntryLen(p) < BLE_CHUNK_LIMIT

AllFitAlone(ps) == \A i \in 1..Len(ps) : FitsAlone(ps[i])

RECURSIVE SumMaxLen(_, _)
SumMaxLen(ps, i) == IF i > Len(ps) THEN 0 ELSE MaxEntryLen(ps[i]) + SumMaxLen(ps, i + 1)

\* All the pins of ps fit in one frame.
FitInOne(ps) ==
    WorstHeaderLen + SumMaxLen(ps, 1) + (IF Len(ps) > 1 THEN Len(ps) - 1 ELSE 0)
        < BLE_CHUNK_LIMIT

RECURSIVE SentPins(_, _)
\* The pin lists of the frames fs[j..], one after the other.
SentPins(fs, j) == IF j > Len(fs) THEN <<>> ELSE fs[j].pins \o SentPins(fs, j + 1)

\* The registry as the observer sees a pin: num, config, direction.
Seen(ps) ==
    [k \in 1..Len(ps) |->
        [num |-> ps[k].num, config |-> ps[k].cfg, direction |-> ps[k].dir]]

\* sendPkt is at its outer loop test and the test fails: the pass is complete.
PassComplete == pc = "outer" /\ idx >= Len(pins)

\* What C1 says of the frames sent so far, at each test of the outer loop.
FramesInOrder ==
    /\ seq = Len(sent)
    /\ \A j \in 1..Len(sent) : sent[j].seq = j - 1
    /\ \A j \in 1..Len(sent) : sent[j].last <=> (j = Len(sent) /\ idx >= Len(pins))
    /\ SentPins(sent, 1) = SubSeq(Seen(pins), 1, idx)
    /\ AllFitAlone(pins) => \A j \in 1..Len(sent) : Len(sent[j].pins) >= 1

\* C1 (amended: for a registry that is not empty): when every pin's entry fits
\* in a frame on its own, a pass sends frames numbered 0, 1, .., k in order, only
\* the last of them has last = true, and their pin lists, one after the other,
\* are the registry in registry order, no pin twice and none left out; when all
\* the pins fit in one frame the pass sends exactly one frame, seq 0, last true.
C1_FramesCoverRegistry ==
    pc = "outer" =>
        /\ FramesInOrder
        /\ (PassComplete /\ Len(pins) > 0) =>
              /\ Len(sent) >= 1
              /\ sent[Len(sent)].last
              /\ SentPins(sent, 1) = Seen(pins)
              /\ FitInOne(pins) =>
                    (Len(sent) = 1 /\ sent[1].seq = 0 /\ sent[1].last)

\* C1 witness: a complete pass over fitting pins that took several frames, one
\* of them with two pins.
C1_Witness ==
    /\ PassComplete
    /\ AllFitAlone(pins)
    /\ Len(sent) >= 2
    /\ \E j \in 1..Len(sent) : Len(sent[j].pins) = 2

\* C1 (as claimed, for every registry): a complete pass over pins that all fit
\* in one frame has sent exactly one frame, with seq = 0 and last = true.
C1_OneFrameWhenAllFit ==
    (PassComplete /\ FitInOne(pins)) =>
        (Len(sent) = 1 /\ sent[1].seq = 0 /\ sent[1].last)

\* C2: every frame sent is shorter than BLE_CHUNK_LIMIT, unless it carries
\* exactly one pin whose entry is too long on its own.  (doc is the document of
\* the frame just sent.)
C2_FrameBelowLimit ==
    (pc = "outer" /\ Len(sent) > 0) =>
        \/ measureJson(doc) < BLE_CHUNK_LIMIT
        \/ Len(doc.pins) = 1 /\ HeaderLen(doc) + doc.pins[1].len >= BLE_CHUNK_LIMIT

\* C2 witness: a frame was closed with two pins because the third would have
\* reached the limit.
C2_Witness ==
    /\ pc = "outer"
    /\ Len(sent) > 0
    /\ Len(doc.pins) = 2
    /\ ~doc.last

\* C3 (amended): a pass over a registry with zero pins sends no frame: sendPkt
\* is only ever at its outer loop test, which fails, and returns.
C3_EmptyRegistryNoFrame ==
    Len(pins) = 0 => (sent = <<>> /\ pc \in {"idle", "outer"})

\* C3 witness: sendPkt runs over the empty registry after begin.
C3_Witness == pc = "outer" /\ Len(pins) = 0 /\ nt # NULL

\* C3 (as claimed): a complete pass over a registry with zero pins has sent
\* exactly one frame: seq 0, an empty pin list, last = true.
C3_EmptyRegistryOneFrame ==
    (PassComplete /\ Len(pins) = 0) =>
        /\ Len(sent) = 1
        /\ sent[1].seq = 0
        /\ sent[1].pins = <<>>
        /\ sent[1].last

\* C4 (as claimed): a pin whose entry alone reaches the limit is still sent,
\* alone in its frame, and the cursor moves past it: a frame about to be sent
\* never lacks the pin the cursor was at.
C4_OversizedPinSentAlone ==
    pc = "emit" => Len(doc.pins) >= 1

----------------------------------------------------------------------------
(* The polled build against a finer clock: one pin at most, begin at any
   moment, loop called at will. *)

StepMs == 100
MaxClock == 700

TickFine == Advance(StepMs, MaxClock)

TimedBeginArgs == {0, 100}
TimedWrites == { <<"3", "0", "0">> }

NextTimed ==
    \/ pc = "idle" /\ RegisterPin(2, "", "", NULL)
    \/ \E ms \in TimedBeginArgs : Begin(ms)
    \/ \E b \in TimedWrites : OnWrite(b)
    \/ Loop
    \/ OpenFrame
    \/ AddPin
    \/ EmitFrame
    \/ Return
    \/ TickFine

SpecTimed == InitPolled /\ [][NextTimed]_vars

\* C14: in the polled build a pass begins only in a call of loop made when the
\* time elapsed since the baseline is at least the current interval, and that
\* call sets the baseline to the current time; nothing else moves the baseline
\* and a call made earlier starts nothing; whenever the elapsed time has reached
\* the interval a call does start a pass.  The baseline is 0 at boot, so the
\* first pass begins no earlier than one interval after boot, and each later one
\* at least the interval then in force after the one before.
C14_PolledTick ==
    /\ [][/\ (pc = "idle" /\ pc' = "outer") =>
                (ULe(dbg_int, now - last) /\ last' = now /\ now' = now)
          /\ last' # last => (pc = "idle" /\ pc' = "outer")
          /\ (pc = "idle" /\ ULt(now - last, dbg_int)) => (pc' = "idle" /\ last' = last)
         ]_vars
    /\ [](pc = "idle" /\ ULe(dbg_int, now - last) =>
             ENABLED (Loop /\ pc' = "outer" /\ last' = now))
    /\ [](pc = "idle" /\ ULt(now - last, dbg_int) => ~ENABLED (Loop /\ pc' # pc))

\* C14 witness: after begin a call of loop found the interval of 300 ms elapsed
\* since an earlier pass and started a pass over one pin.
C14_Witness ==
    /\ pc = "outer"
    /\ nt # NULL
    /\ dbg_int = 300
    /\ now = last
    /\ last = 600
    /\ Len(pins) = 1

----------------------------------------------------------------------------
(* The default build (ESP_LIVE_DBG_ASYNC == 1): bleDbgTask runs the passes in
   its own context while the application goes on registering pins and the
   stack delivers control writes. *)

TaskIds == {2, 7}
TaskBeginArgs == {0, 100}
TaskWrites == { <<"3", "0", "0">> }

NextTask ==
    \/ \E n \in TaskIds : RegisterPin(n, "", "", NULL)
    \/ \E ms \in TaskBeginArgs : Begin(ms)
    \/ \E b \in TaskWrites : OnWrite(b)
    \/ TaskCall
    \/ OpenFrame
    \/ AddPin
    \/ EmitFrame
    \/ Return
    \/ Wake
    \/ TickFine

SpecTask == Init /\ [][NextTask]_vars

InPass == pc \in {"outer", "inner", "emit"}

\* C15: once begin has started it, bleDbgTask is never at an end: it goes from
\* the call of sendPkt through the pass to the suspension and back to the call,
\* in that order only.  The first call waits for nothing.  A pass is left only
\* when it is complete, and the suspension that follows lasts the value dbg_int
\* has at that moment; the suspension ends no earlier than that.  A control
\* write that changes dbg_int changes neither the position of the task, nor the
\* pass in progress, nor the length of the suspension in progress.
C15_TaskAlternates ==
    /\ [](nt # NULL => pc \in {"call", "outer", "inner", "emit", "delay"})
    /\ [](pc = "call" => ENABLED TaskCall)
    /\ [][/\ (pc = "idle" /\ pc' # "idle") => (pc' = "call" /\ nt' # NULL)
          /\ (pc = "call" /\ pc' # "call") => (pc' = "outer" /\ idx' = 0 /\ seq' = 0)
          /\ (InPass /\ ~InPass') =>
                /\ pc' = "delay"
                /\ idx >= Len(pins)
                /\ wake' = [from |-> now, ms |-> dbg_int]
          /\ (pc = "delay" /\ pc' = "delay") => wake' = wake
          /\ (pc = "delay" /\ pc' # "delay") =>
                (pc' = "call" /\ ULe(wake.ms, now - wake.from))
          /\ (nt # NULL /\ dbg_int' # dbg_int) =>
                UNCHANGED <<pc, seq, idx, doc, sent, wake>>
         ]_vars

\* C15 witness: the interval was 100 when a suspension began, 300 was written
\* during it, and the next suspension, begun after a second pass, lasts 300.
C15_Witness ==
    /\ pc = "delay"
    /\ wake.ms = 300
    /\ wake.from >= 100
    /\ wrValue = <<"3", "0", "0">>
    /\ Len(pins) > 0

\* C16 (as claimed): while a pass is between its first and its last read of the
\* registry, no registration call changes the registry.
C16_RegistryExclusive ==
    [][InPass => pins' = pins]_vars

\* C17 (as claimed): the cursor moves on by at least one pin with every frame of
\* a pass, so a pass has sent at no moment more frames than the registry has
\* pins, and ends.  (Polled build: the registry does not change during a pass.)
C17_PassTerminates ==
    InPass => (Len(sent) <= Len(pins) /\ Len(sent) <= idx)

----------------------------------------------------------------------------
(* Value resolution in the polled build: pins of every classification, with
   and without a source, are registered, and each pass resolves them against
   what the sources and the hardware return. *)

\* Getter results in ten-thousandths: none (NaN), 0, 10, 255.9, 256, 300, 5000
\* and -5.
ResolveGets == {NAN, 0, 100000, 2559000, 2560000, 3000000, 50000000, 0 - 50000}
ResolveEnvs == [get : ResolveGets, deref : {12346}, dig : {1}, ana : {4095}]
ResolveIds == {2, 25}
ResolveCfgs == {"ANALOG", "VIRTUAL", ""}
ResolveDirs == {"OUT", "IN"}

NextResolve ==
    \/ pc = "idle" /\ \E n \in ResolveIds, c \in ResolveCfgs, d \in ResolveDirs, g \in Getters :
                         RegisterPin(n, c, d, g)
    \/ pc = "idle" /\ ProbeImpl(100, "var", "x")
    \/ Begin(0)
    \/ Loop
    \/ OpenFrame
    \/ AddPinWith(ResolveEnvs)
    \/ EmitFrame
    \/ Return

SpecResolve == InitPolled /\ [][NextResolve]_vars

\* The entries of the frame under construction.
Entries == IF doc = <<>> THEN {} ELSE {doc.pins[k] : k \in 1..Len(doc.pins)}

Clamp12(x) == IF x < 0 THEN 0 ELSE IF x > 4095 THEN 4095 ELSE x

\* C18: the entry of a pin with config ANALOG and a supplied raw value, r being
\* that value truncated to an integer, has the value clamp(16 * r, 0, 4095)
\* when the direction is OUT, the id is that of a DAC line and r is in 0..255,
\* and clamp(r, 0, 4095) otherwise; the value is in 0..4095 and its analog
\* field equals its value field.
C18_AnalogEncoding ==
    \A o \in Entries :
        (o.config = "ANALOG" /\ o.raw # NAN) =>
            LET r == TruncToInt(o.raw)
            IN  /\ o.value = IF o.direction = "OUT" /\ o.num \in {25, 26} /\ r \in 0..255
                             THEN Clamp12(16 * r) ELSE Clamp12(r)
                /\ o.value \in 0..4095
                /\ o.analog = o.value

\* C18 witness: a frame holds DAC output 25 with raw 10 encoded as 160.
C18_Witness ==
    \E o \in Entries :
        /\ o.config = "ANALOG" /\ o.direction = "OUT" /\ o.num = 25
        /\ o.raw = 100000
        /\ o.value = 160

\* C19: an entry is encoded as virtual exactly when the pin's config is
\* "VIRTUAL"; the entry of a virtual pin is made without a hardware read,
\* whatever the id and whatever sources the pin has; a hardware read is made
\* only for a pin that is not virtual and has no raw value supplied.
C19_VirtualNoHardware ==
    \A o \in Entries :
        /\ (o.kind = "virtual") <=> (o.config = "VIRTUAL")
        /\ (o.src = "virtual") <=> (o.config = "VIRTUAL")
        /\ o.config = "VIRTUAL" => o.hw = "none"
        /\ o.hw # "none" => (o.config # "VIRTUAL" /\ o.raw = NAN)

\* C19 witness: a pin with a physical id, config "VIRTUAL" and no source at all
\* was encoded, as virtual and without a hardware read.
C19_Witness ==
    \E o \in Entries :
        /\ o.num < VirtualFloor
        /\ o.config = "VIRTUAL"
        /\ o.raw = NAN
        /\ o.kind = "virtual"
        /\ o.hw = "none"

\* C20 (as claimed): whenever sendPkt is about to push a frame through the
\* notify characteristic, begin has created it: nt is not null.
C20_NotifyCreated ==
    pc = "emit" => nt # NULL

====
